---- MODULE Spec2Model ----
(***************************************************************************)
(* citro3d math: Matrix<M, N>, FVec<N> and their operators.                *)
(*                                                                         *)
(* An f32 is modelled as an exact rational <<n, d>> in lowest terms with   *)
(* d > 0 (no rounding, no NaN, no infinities).  A C3D_Mtx is the 4x4       *)
(* storage r[0..3].c[0..3]; a C3D_FVec is c[0..3] with the fields          *)
(* w = c[0], z = c[1], y = c[2], x = c[3] (WZYX order).  The definitions   *)
(* named after citro3d_sys routines give the behaviour of the C routine    *)
(* that the Rust wrapper calls at the mapped line; the remaining           *)
(* definitions follow the Rust code.                                       *)
(***************************************************************************)
EXTENDS Integers, Sequences, FiniteSets, TLC

VARIABLES reg, last, steps, vec, vlast, cmp

vars == <<reg, last, steps, vec, vlast, cmp>>

----------------------------------------------------------------------------
(* Bounds of the exploration *)

MaxSteps == 4

MaxVecSteps == 3

MaxCmpSteps == 3

----------------------------------------------------------------------------
(* f32 arithmetic, as exact rationals *)

Abs(n) == IF n < 0 THEN -n ELSE n

RECURSIVE GCD(_, _)
GCD(p, q) == IF q = 0 THEN p ELSE GCD(q, p % q)

Rat(n, d) ==
    LET s == IF d < 0 THEN -1 ELSE 1
        g == GCD(Abs(n), Abs(d))
    IN  <<(s * n) \div g, (s * d) \div g>>

F(n) == <<n, 1>>

FAdd(p, q) == IF p[2] = 1 /\ q[2] = 1 THEN <<p[1] + q[1], 1>>
              ELSE Rat(p[1] * q[2] + q[1] * p[2], p[2] * q[2])

FNeg(p) == <<-p[1], p[2]>>

FSub(p, q) == FAdd(p, FNeg(q))

FMul(p, q) == IF p[2] = 1 /\ q[2] = 1 THEN <<p[1] * q[1], 1>>
              ELSE Rat(p[1] * q[1], p[2] * q[2])

\* p / q for q # 0 (the model never divides by zero)
FDiv(p, q) == Rat(p[1] * q[2], p[2] * q[1])

FLe(p, q) == p[1] * q[2] <= q[1] * p[2]

FAbs(p) == <<Abs(p[1]), p[2]>>

Sum4(p, q, s, t) == FAdd(FAdd(p, q), FAdd(s, t))

----------------------------------------------------------------------------
(* C3D_FVec / C3D_Mtx storage *)

W == 0

Z == 1

Y == 2

X == 3

Slots == 0 .. 3

FVec4_New(x, y, z, w) == [j \in Slots |-> CASE j = X -> x [] j = Y -> y [] j = Z -> z [] OTHER -> w]

FVec3_New(x, y, z) == FVec4_New(x, y, z, F(0))

FVec4_Dot(l, r) == Sum4(FMul(l[X], r[X]), FMul(l[Y], r[Y]), FMul(l[Z], r[Z]), FMul(l[W], r[W]))

Mtx_Zeros == [i \in Slots |-> [j \in Slots |-> F(0)]]

Mtx_Diagonal(x, y, z, w) ==
    [i \in Slots |-> [j \in Slots |->
        CASE i = 0 /\ j = X -> x
          [] i = 1 /\ j = Y -> y
          [] i = 2 /\ j = Z -> z
          [] i = 3 /\ j = W -> w
          [] OTHER -> F(0)]]

Mtx_Identity == Mtx_Diagonal(F(1), F(1), F(1), F(1))

\* swaps r[i].c[j] with r[3-j].c[3-i] over the whole 4x4 storage
Mtx_Transpose(m) == [i \in Slots |-> [j \in Slots |-> m[3 - j][3 - i]]]

Mtx_Add(l, r) == [i \in Slots |-> [j \in Slots |-> FAdd(l[i][j], r[i][j])]]

Mtx_Subtract(l, r) == [i \in Slots |-> [j \in Slots |-> FSub(l[i][j], r[i][j])]]

\* out->r[j].c[i] = a->r[j].x*b->r[0].c[i] + a->r[j].y*b->r[1].c[i]
\*                + a->r[j].z*b->r[2].c[i] + a->r[j].w*b->r[3].c[i]
Mtx_Multiply(a, b) ==
    [j \in Slots |-> [i \in Slots |->
        Sum4(FMul(a[j][X], b[0][i]), FMul(a[j][Y], b[1][i]),
             FMul(a[j][Z], b[2][i]), FMul(a[j][W], b[3][i]))]]

\* bRightSide = false: mtx->r[j].c[i] += mtx->r[3].c[i] * v.c[3-j], j < 3
Mtx_Translate(m, x, y, z) ==
    LET v == FVec4_New(x, y, z, F(1))
    IN  [j \in Slots |-> [i \in Slots |->
            IF j < 3 THEN FAdd(m[j][i], FMul(m[3][i], v[3 - j])) ELSE m[j][i]]]

\* mtx->r[i].x *= x; mtx->r[i].y *= y; mtx->r[i].z *= z, i < 4
Mtx_Scale(m, x, y, z) ==
    [i \in Slots |-> [j \in Slots |->
        CASE j = X -> FMul(m[i][j], x)
          [] j = Y -> FMul(m[i][j], y)
          [] j = Z -> FMul(m[i][j], z)
          [] OTHER -> m[i][j]]]

\* angles are whole quarter turns, where cosf and sinf are exact
Cos(q) == F(CASE q % 4 = 0 -> 1 [] q % 4 = 2 -> -1 [] OTHER -> 0)

Sin(q) == F(CASE q % 4 = 1 -> 1 [] q % 4 = 3 -> -1 [] OTHER -> 0)

\* bRightSide = false: rows 1 and 2 are replaced by their rotation
Mtx_RotateX(m, q) ==
    [i \in Slots |-> [j \in Slots |->
        CASE i = 1 -> FSub(FMul(m[1][j], Cos(q)), FMul(m[2][j], Sin(q)))
          [] i = 2 -> FAdd(FMul(m[2][j], Cos(q)), FMul(m[1][j], Sin(q)))
          [] OTHER -> m[i][j]]]

Mtx_RotateY(m, q) ==
    [i \in Slots |-> [j \in Slots |->
        CASE i = 0 -> FAdd(FMul(m[0][j], Cos(q)), FMul(m[2][j], Sin(q)))
          [] i = 2 -> FSub(FMul(m[2][j], Cos(q)), FMul(m[0][j], Sin(q)))
          [] OTHER -> m[i][j]]]

Mtx_RotateZ(m, q) ==
    [i \in Slots |-> [j \in Slots |->
        CASE i = 0 -> FSub(FMul(m[0][j], Cos(q)), FMul(m[1][j], Sin(q)))
          [] i = 1 -> FAdd(FMul(m[1][j], Cos(q)), FMul(m[0][j], Sin(q)))
          [] OTHER -> m[i][j]]]

\* |v| for an axis-aligned v, the only axes the model passes to rotate
FVec3_Magnitude(v) == FAdd(FAbs(v[X]), FAdd(FAbs(v[Y]), FAbs(v[Z])))

FVec3_Normalize(v) ==
    LET m == FVec3_Magnitude(v)
    IN  FVec3_New(FDiv(v[X], m), FDiv(v[Y], m), FDiv(v[Z], m))

\* bRightSide = false: rows 0..2 of mtx become om * (rows 0..2 of mtx), where
\* om is the rotation by the angle around the normalized axis
Mtx_Rotate(m, axis, q) ==
    LET s == Sin(q)
        c == Cos(q)
        t == FSub(F(1), c)
        n == FVec3_Normalize(axis)
        x == n[X]
        y == n[Y]
        z == n[Z]
        om == <<
            <<FAdd(FMul(t, FMul(x, x)), c), FSub(FMul(t, FMul(y, x)), FMul(s, z)), FAdd(FMul(t, FMul(z, x)), FMul(s, y))>>,
            <<FAdd(FMul(t, FMul(x, y)), FMul(s, z)), FAdd(FMul(t, FMul(y, y)), c), FSub(FMul(t, FMul(z, y)), FMul(s, x))>>,
            <<FSub(FMul(t, FMul(x, z)), FMul(s, y)), FAdd(FMul(t, FMul(y, z)), FMul(s, x)), FAdd(FMul(t, FMul(z, z)), c)>> >>
    IN  [i \in Slots |-> [j \in Slots |->
            IF i < 3
            THEN FAdd(FMul(m[0][j], om[i + 1][1]),
                      FAdd(FMul(m[1][j], om[i + 1][2]), FMul(m[2][j], om[i + 1][3])))
            ELSE m[i][j]]]

\* rows/columns of the 4x4 other than k, in increasing order
Others(k) == CASE k = 0 -> <<1, 2, 3>> [] k = 1 -> <<0, 2, 3>>
               [] k = 2 -> <<0, 1, 3>> [] OTHER -> <<0, 1, 2>>

\* element (row i, column j) with the columns counted x, y, z, w
El(m, i, j) == m[i][3 - j]

Det3(m, rs, cs) ==
    LET e(p, q) == El(m, rs[p], cs[q])
        t(p, q, u) == FMul(e(1, p), FMul(e(2, q), e(3, u)))
    IN  FSub(FAdd(t(1, 2, 3), FAdd(t(2, 3, 1), t(3, 1, 2))),
             FAdd(t(3, 2, 1), FAdd(t(2, 1, 3), t(1, 3, 2))))

Cofactor(m, i, j) ==
    LET d == Det3(m, Others(i), Others(j))
    IN  IF (i + j) % 2 = 0 THEN d ELSE FNeg(d)

\* the determinant of the whole 4x4 storage, expanded along row 0
Det4(m) == Sum4(FMul(El(m, 0, 0), Cofactor(m, 0, 0)), FMul(El(m, 0, 1), Cofactor(m, 0, 1)),
                FMul(El(m, 0, 2), Cofactor(m, 0, 2)), FMul(El(m, 0, 3), Cofactor(m, 0, 3)))

\* inverts the whole 4x4 storage in place and returns its determinant; a
\* matrix that is not invertible is left as it is and 0.0 is returned
Mtx_Inverse(m) ==
    LET det == Det4(m)
    IN  IF det = F(0)
        THEN [det |-> F(0), m |-> m]
        ELSE [det |-> det,
              m |-> [i \in Slots |-> [j \in Slots |-> FDiv(Cofactor(m, 3 - j, i), det)]]]

Mtx_MultiplyFVec4(m, v) ==
    FVec4_New(FVec4_Dot(m[0], v), FVec4_Dot(m[1], v), FVec4_Dot(m[2], v), FVec4_Dot(m[3], v))

----------------------------------------------------------------------------
(* Matrix<M, N>: the shape is part of the type, the value is the storage *)

ROW_SIZE(M) == M = 3 \/ M = 4

COLUMN_SIZE(N) == N > 0 /\ N <= 4

\* what a call whose instantiation fails the shape assertions yields: no value
Rejected == [M |-> -1, N |-> -1, r |-> Mtx_Zeros]

\* no matrix (a field of `last` that the operation does not use)
None == [M |-> 0, N |-> 0, r |-> Mtx_Zeros]

\* a constructor that skips the shape assertions
new_unchecked(M, N, value) == [M |-> M, N |-> N, r |-> value]

new(M, N, value) ==
    IF ROW_SIZE(M) /\ COLUMN_SIZE(N) THEN [M |-> M, N |-> N, r |-> value] ELSE Rejected

\* an as_rows that slices each row from the front, c[..N], instead of c[(4 - N)..]
as_rows_front(self) ==
    [row \in 0 .. self.M - 1 |-> [col \in 0 .. self.N - 1 |-> self.r[row][col]]]

as_rows(self) ==
    [row \in 0 .. self.M - 1 |-> [col \in 0 .. self.N - 1 |-> self.r[row][(4 - self.N) + col]]]

\* the rows that Debug prints: as_rows with every row reversed, so that
\* column 0 is x (the conventional order)
fmt_rows(self) ==
    LET rows == as_rows(self)
    IN  [row \in 0 .. self.M - 1 |-> [col \in 0 .. self.N - 1 |-> rows[row][(self.N - 1) - col]]]

zero(M, N) == new(M, N, Mtx_Zeros)

\* a transpose that relabels the shape without calling Mtx_Transpose
transpose_no_swap(self) == new(self.N, self.M, self.r)

transpose(self) == new(self.N, self.M, Mtx_Transpose(self.r))

translate(self, x, y, z) == [self EXCEPT !.r = Mtx_Translate(self.r, x, y, z)]

scale(self, x, y, z) == [self EXCEPT !.r = Mtx_Scale(self.r, x, y, z)]

rotate(self, axis, angle) == [self EXCEPT !.r = Mtx_Rotate(self.r, axis, angle)]

rotate_x(self, angle) == [self EXCEPT !.r = Mtx_RotateX(self.r, angle)]

rotate_y(self, angle) == [self EXCEPT !.r = Mtx_RotateY(self.r, angle)]

rotate_z(self, angle) == [self EXCEPT !.r = Mtx_RotateZ(self.r, angle)]

\* Result<Self, Self>: ok = TRUE is Ok(m), ok = FALSE is Err(m)
inverse(self) ==
    LET res == Mtx_Inverse(self.r)
    IN  IF res.det = F(0)
        THEN [ok |-> FALSE, m |-> [self EXCEPT !.r = res.m]]
        ELSE [ok |-> TRUE, m |-> [self EXCEPT !.r = res.m]]

\* an identity() that calls Mtx_Zeros, as zero() does
identity_zeros(N) == new(N, N, Mtx_Zeros)

identity(N) == new(N, N, Mtx_Identity)

diagonal3(x, y, z) == new(3, 3, Mtx_Diagonal(x, y, z, F(0)))

diagonal4(x, y, z, w) == new(4, 4, Mtx_Diagonal(x, y, z, w))

\* an add that calls Mtx_Subtract
add_as_sub(lhs, rhs) == new(lhs.M, lhs.N, Mtx_Subtract(lhs.r, rhs.r))

add(lhs, rhs) == new(lhs.M, lhs.N, Mtx_Add(lhs.r, rhs.r))

sub(lhs, rhs) == new(lhs.M, lhs.N, Mtx_Subtract(lhs.r, rhs.r))

mul(lhs, rhs) == new(lhs.M, rhs.N, Mtx_Multiply(lhs.r, rhs.r))

mul_fvec4(self, rhs) == Mtx_MultiplyFVec4(self.r, rhs)

eq(self, other) == as_rows(self) = as_rows(other)

\* f32::EPSILON.sqrt() = 2^-11.5, about 1/2896.3
EpsilonDenominator == 2896

default_epsilon == <<1, EpsilonDenominator>>

abs_diff_eq(self, other, epsilon) ==
    LET lhs == as_rows(self)
        rhs == as_rows(other)
    IN  \A row \in 0 .. self.M - 1 : \A col \in 0 .. self.N - 1 :
            FLe(FAbs(FSub(lhs[row][col], rhs[row][col])), epsilon)

----------------------------------------------------------------------------
(* FVec<N>, N in {3, 4}: the length is part of the type, the value is c[0..3] *)

FVec4_Add(l, r) == FVec4_New(FAdd(l[X], r[X]), FAdd(l[Y], r[Y]), FAdd(l[Z], r[Z]), FAdd(l[W], r[W]))

FVec4_Subtract(l, r) == FVec4_New(FSub(l[X], r[X]), FSub(l[Y], r[Y]), FSub(l[Z], r[Z]), FSub(l[W], r[W]))

FVec4_Negate(v) == FVec4_New(FNeg(v[X]), FNeg(v[Y]), FNeg(v[Z]), FNeg(v[W]))

FVec4_Scale(v, k) == FVec4_New(FMul(v[X], k), FMul(v[Y], k), FMul(v[Z], k), FMul(v[W], k))

FVec3_Add(l, r) == FVec3_New(FAdd(l[X], r[X]), FAdd(l[Y], r[Y]), FAdd(l[Z], r[Z]))

FVec3_Subtract(l, r) == FVec3_New(FSub(l[X], r[X]), FSub(l[Y], r[Y]), FSub(l[Z], r[Z]))

FVec3_Negate(v) == FVec3_New(FNeg(v[X]), FNeg(v[Y]), FNeg(v[Z]))

FVec3_Scale(v, k) == FVec3_New(FMul(v[X], k), FMul(v[Y], k), FMul(v[Z], k))

FVec(N, c) == [N |-> N, c |-> c]

\* FVec3::new(x, y, z) and FVec4::new(x, y, z, w)
fvec3_new(x, y, z) == FVec(3, FVec3_New(x, y, z))

fvec4_new(x, y, z, w) == FVec(4, FVec4_New(x, y, z, w))

\* splat(value): all N logical components equal to value
splat(N, v) == IF N = 3 THEN fvec3_new(v, v, v) ELSE fvec4_new(v, v, v, v)

fvec_add(self, rhs) ==
    FVec(self.N, IF self.N = 4 THEN FVec4_Add(self.c, rhs.c) ELSE FVec3_Add(self.c, rhs.c))

fvec_sub(self, rhs) ==
    FVec(self.N, IF self.N = 4 THEN FVec4_Subtract(self.c, rhs.c) ELSE FVec3_Subtract(self.c, rhs.c))

fvec_neg(self) ==
    FVec(self.N, IF self.N = 4 THEN FVec4_Negate(self.c) ELSE FVec3_Negate(self.c))

fvec_mul(self, rhs) ==
    FVec(self.N, IF self.N = 4 THEN FVec4_Scale(self.c, rhs) ELSE FVec3_Scale(self.c, rhs))

\* a division that scales by rhs instead of by its reciprocal
fvec_div_no_reciprocal(self, rhs) == fvec_mul(self, rhs)

\* self * (1.0 / rhs)
fvec_div(self, rhs) == fvec_mul(self, FDiv(F(1), rhs))

\* self.0.c[(4 - N)..] == other.0.c[(4 - N)..]
fvec_eq(self, other) == \A k \in (4 - self.N) .. 3 : self.c[k] = other.c[k]

----------------------------------------------------------------------------
(* A client of the library: two matrix variables and the calls it makes *)

Regs == {"a", "b"}

Other(d) == IF d = "a" THEN "b" ELSE "a"

\* shapes a client may try to instantiate: the eight valid ones and some invalid
Shapes == ({3, 4} \X (1 .. 4)) \cup {<<2, 3>>, <<3, 5>>}

Squares == {2, 3, 4}

DiagArgs3 == {<<1, 2, 3>>, <<0, 1, 1>>}

DiagArgs4 == {<<1, 2, 3, 4>>, <<1, 0, 2, 1>>}

TransArgs == {<<1, 0, -1>>, <<0, 1, 1>>}

ScaleArgs == {<<2, 1, 1>>, <<1, -1, 2>>}

Angles == {1}

Axes == {<<0, 0, 2>>, <<-1, 0, 0>>}

Call(op, arg, pre, rhs, out, ok) ==
    [op |-> op, arg |-> arg, pre |-> pre, rhs |-> rhs, out |-> out, ok |-> ok]

NoCall == Call("init", <<>>, None, None, None, TRUE)

NoVecCall == [op |-> "init", k |-> F(0), pre |-> splat(4, F(0)), rhs |-> splat(4, F(0)), out |-> splat(4, F(0))]

NoCompare == [op |-> "init", eps |-> F(0), eq |-> TRUE, approx |-> TRUE]

\* the client's variables after their construction, as in the crate's tests:
\* two Matrix3::identity(), and the vectors splat(1), splat(2)
MatrixInit == reg = [a |-> identity(3), b |-> identity(3)]

Init ==
    /\ MatrixInit
    /\ last = NoCall
    /\ steps = 0
    /\ vec = [u |-> splat(4, F(1)), v |-> splat(4, F(2))]
    /\ vlast = NoVecCall
    /\ cmp = NoCompare

Tick ==
    /\ steps < MaxSteps
    /\ steps' = steps + 1
    /\ UNCHANGED <<vec, vlast, cmp>>

\* let a = <constructor>(..): a rejected instantiation binds nothing
Construct(op, arg, m) ==
    /\ Tick
    /\ reg' = IF m = Rejected THEN reg ELSE [reg EXCEPT !.a = m]
    /\ last' = Call(op, arg, None, None, m, TRUE)

Zero(sh) == Construct("zero", sh, zero(sh[1], sh[2]))

Identity(n) == Construct("identity", <<n>>, identity(n))

Diagonal3(v) == Construct("diagonal3", v, diagonal3(F(v[1]), F(v[2]), F(v[3])))

Diagonal4(v) == Construct("diagonal4", v, diagonal4(F(v[1]), F(v[2]), F(v[3]), F(v[4])))

\* b = a.clone()
Clone ==
    /\ Tick
    /\ reg' = [reg EXCEPT !.b = reg.a]
    /\ last' = Call("clone", <<>>, reg.a, None, reg.a, TRUE)

\* a = a.transpose()
Transpose ==
    LET m == transpose(reg.a)
    IN  /\ Tick
        /\ reg' = IF m = Rejected THEN reg ELSE [reg EXCEPT !.a = m]
        /\ last' = Call("transpose", <<>>, reg.a, None, m, TRUE)

\* an in-place transform of a
InPlace(op, arg, m) ==
    /\ Tick
    /\ reg' = [reg EXCEPT !.a = m]
    /\ last' = Call(op, arg, reg.a, None, m, TRUE)

Translate(v) == InPlace("translate", v, translate(reg.a, F(v[1]), F(v[2]), F(v[3])))

Scale(v) == InPlace("scale", v, scale(reg.a, F(v[1]), F(v[2]), F(v[3])))

Rotate(ax, q) ==
    InPlace("rotate", ax \o <<q>>, rotate(reg.a, FVec3_New(F(ax[1]), F(ax[2]), F(ax[3])), q))

RotateX(q) == InPlace("rotate_x", <<q>>, rotate_x(reg.a, q))

RotateY(q) == InPlace("rotate_y", <<q>>, rotate_y(reg.a, q))

RotateZ(q) == InPlace("rotate_z", <<q>>, rotate_z(reg.a, q))

\* a = match a.inverse() { Ok(m) => m, Err(m) => m }   (square matrices only)
Inverse ==
    /\ reg.a.M = reg.a.N
    /\ Tick
    /\ \E res \in {inverse(reg.a)} :
        /\ reg' = [reg EXCEPT !.a = res.m]
        /\ last' = Call("inverse", <<>>, reg.a, None, res.m, res.ok)

\* &l + &r, &l - &r (equal shapes) and &l * &r (columns of l = rows of r):
\* the operands are borrowed, the result is a new value held in last.out
Add(l) ==
    /\ reg[l].M = reg[Other(l)].M /\ reg[l].N = reg[Other(l)].N
    /\ Tick
    /\ last' = Call("add", <<>>, reg[l], reg[Other(l)], add(reg[l], reg[Other(l)]), TRUE)
    /\ UNCHANGED reg

Sub(l) ==
    /\ reg[l].M = reg[Other(l)].M /\ reg[l].N = reg[Other(l)].N
    /\ Tick
    /\ last' = Call("sub", <<>>, reg[l], reg[Other(l)], sub(reg[l], reg[Other(l)]), TRUE)
    /\ UNCHANGED reg

Mul(l) ==
    /\ reg[l].N = reg[Other(l)].M
    /\ Tick
    /\ last' = Call("mul", <<>>, reg[l], reg[Other(l)], mul(reg[l], reg[Other(l)]), TRUE)
    /\ UNCHANGED reg

\* let a = <the result of the last add, sub or mul>
Bind ==
    /\ last.op \in {"add", "sub", "mul"}
    /\ last.out # Rejected
    /\ Tick
    /\ reg' = [reg EXCEPT !.a = last.out]
    /\ last' = Call("bind", <<>>, None, None, last.out, TRUE)

Next ==
    \/ \E sh \in Shapes : Zero(sh)
    \/ \E n \in Squares : Identity(n)
    \/ \E v \in DiagArgs3 : Diagonal3(v)
    \/ \E v \in DiagArgs4 : Diagonal4(v)
    \/ Clone
    \/ Transpose
    \/ \E v \in TransArgs : Translate(v)
    \/ \E v \in ScaleArgs : Scale(v)
    \/ \E ax \in Axes, q \in Angles : Rotate(ax, q)
    \/ \E q \in Angles : RotateX(q)
    \/ \E q \in Angles : RotateY(q)
    \/ \E q \in Angles : RotateZ(q)
    \/ Inverse
    \/ \E l \in Regs : Add(l)
    \/ \E l \in Regs : Sub(l)
    \/ \E l \in Regs : Mul(l)
    \/ Bind

Spec == Init /\ [][Next]_vars

----------------------------------------------------------------------------
(* A client that compares its two matrices *)

Near1 == <<4097, 4096>>

FineArgs3 == {<<F(1), F(1), F(1)>>, <<Near1, F(1), F(1)>>, <<F(1), F(2), F(3)>>}

FineArgs4 == {<<F(1), F(1), F(1), F(1)>>, <<F(1), F(1), Near1, F(1)>>}

Epsilons == {default_epsilon, <<1, 8192>>}

CmpTick ==
    /\ steps < MaxCmpSteps
    /\ steps' = steps + 1
    /\ UNCHANGED <<last, vec, vlast>>

CmpSet(op, d, m) ==
    /\ CmpTick
    /\ reg' = [reg EXCEPT ![d] = m]
    /\ cmp' = [NoCompare EXCEPT !.op = op]

\* both variables keep one type, Matrix3 or Matrix4, as == requires
CmpIdentity(n) ==
    /\ CmpTick
    /\ reg' = [a |-> identity(n), b |-> identity(n)]
    /\ cmp' = [NoCompare EXCEPT !.op = "identity"]

CmpDiagonal3(d, v) == reg[d].N = 3 /\ CmpSet("diagonal3", d, diagonal3(v[1], v[2], v[3]))

CmpDiagonal4(d, v) == reg[d].N = 4 /\ CmpSet("diagonal4", d, diagonal4(v[1], v[2], v[3], v[4]))

CmpTranslate(d, v) == CmpSet("translate", d, translate(reg[d], F(v[1]), F(v[2]), F(v[3])))

CmpTranspose(d) == CmpSet("transpose", d, transpose(reg[d]))

\* a == b and a.abs_diff_eq(&b, eps)
Compare(eps) ==
    /\ CmpTick
    /\ cmp' = [op |-> "compare", eps |-> eps, eq |-> eq(reg.a, reg.b),
               approx |-> abs_diff_eq(reg.a, reg.b, eps)]
    /\ UNCHANGED reg

NextEq ==
    \/ \E n \in {3, 4} : CmpIdentity(n)
    \/ \E d \in Regs, v \in FineArgs3 : CmpDiagonal3(d, v)
    \/ \E d \in Regs, v \in FineArgs4 : CmpDiagonal4(d, v)
    \/ \E d \in Regs, v \in TransArgs : CmpTranslate(d, v)
    \/ \E d \in Regs : CmpTranspose(d)
    \/ \E eps \in Epsilons : Compare(eps)

SpecEq == Init /\ [][NextEq]_vars

----------------------------------------------------------------------------
(* A client that computes with its two vectors *)

Lengths == {3, 4}

SplatVals == {F(-1), F(1), F(2), <<1, 2>>}

Scalars == {F(2), F(-3), <<3, 2>>}

NewArgs == {<<F(1), F(2), F(3), F(4)>>, <<F(0), F(-1), <<1, 2>>, F(2)>>}

InitVec ==
    /\ reg = [a |-> identity(4), b |-> identity(4)]
    /\ last = NoCall
    /\ steps = 0
    /\ \E N \in Lengths : vec = [u |-> splat(N, F(1)), v |-> splat(N, F(2))]
    /\ vlast = NoVecCall
    /\ cmp = NoCompare

VecTick ==
    /\ steps < MaxVecSteps
    /\ steps' = steps + 1
    /\ UNCHANGED <<reg, last, cmp>>

VecCall(op, k, pre, rhs, out) == [op |-> op, k |-> k, pre |-> pre, rhs |-> rhs, out |-> out]

\* let d = FVec::splat(a), both variables keeping one length
Splat(d, a) ==
    /\ VecTick
    /\ vec' = [vec EXCEPT ![d] = splat(vec[d].N, a)]
    /\ vlast' = VecCall("splat", a, vec.u, vec.v, splat(vec[d].N, a))

\* let d = FVec3::new(x, y, z) or FVec4::new(x, y, z, w)
VecNew(d, c) ==
    LET out == IF vec[d].N = 3 THEN fvec3_new(c[1], c[2], c[3]) ELSE fvec4_new(c[1], c[2], c[3], c[4])
    IN  /\ VecTick
        /\ vec' = [vec EXCEPT ![d] = out]
        /\ vlast' = VecCall("new", F(0), vec.u, vec.v, out)

\* u = u <op> v, u = -u, u = u * k, u = u / k
VecOp(op, k, out) ==
    /\ VecTick
    /\ vec' = [vec EXCEPT !.u = out]
    /\ vlast' = VecCall(op, k, vec.u, vec.v, out)

VAdd == VecOp("add", F(0), fvec_add(vec.u, vec.v))

VSub == VecOp("sub", F(0), fvec_sub(vec.u, vec.v))

VNeg == VecOp("neg", F(0), fvec_neg(vec.u))

VMul(k) == VecOp("mul", k, fvec_mul(vec.u, k))

VDiv(k) == VecOp("div", k, fvec_div(vec.u, k))

NextVec ==
    \/ \E d \in {"u", "v"}, a \in SplatVals : Splat(d, a)
    \/ \E d \in {"u", "v"}, c \in NewArgs : VecNew(d, c)
    \/ VAdd
    \/ VSub
    \/ VNeg
    \/ \E k \in Scalars : VMul(k)
    \/ \E k \in Scalars : VDiv(k)

SpecVec == InitVec /\ [][NextVec]_vars

----------------------------------------------------------------------------
(* Vocabulary of the properties *)

IsMatrix(m) == m # Rejected /\ m # None

\* the determinant of the logical N x N window of a square matrix
LogicalDet(m) == IF m.N = 3 THEN Det3(m.r, <<0, 1, 2>>, <<0, 1, 2>>) ELSE Det4(m.r)

RECURSIVE DotTo(_, _, _, _, _)
DotTo(A, B, i, j, n) ==
    IF n = 0 THEN F(0) ELSE FAdd(DotTo(A, B, i, j, n - 1), FMul(A[i][n - 1], B[n - 1][j]))

\* the standard product of an M x N and an N x P array of logical elements
StdProduct(A, B, M, N, P) == [i \in 0 .. M - 1 |-> [j \in 0 .. P - 1 |-> DotTo(A, B, i, j, N)]]

\* the four unit points (x, y, z, w)
Points == {FVec4_New(F(1), F(0), F(0), F(0)), FVec4_New(F(0), F(1), F(0), F(0)),
           FVec4_New(F(0), F(0), F(1), F(0)), FVec4_New(F(0), F(0), F(0), F(1))}

\* a quarter-turn rotation of the point p around the axis k (0 = x, 1 = y, 2 = z)
TurnPoint(k, q, p) ==
    LET c == Cos(q)
        s == Sin(q)
    IN  CASE k = 0 -> FVec4_New(p[X], FSub(FMul(c, p[Y]), FMul(s, p[Z])),
                                FAdd(FMul(s, p[Y]), FMul(c, p[Z])), p[W])
          [] k = 1 -> FVec4_New(FAdd(FMul(c, p[X]), FMul(s, p[Z])), p[Y],
                                FSub(FMul(c, p[Z]), FMul(s, p[X])), p[W])
          [] OTHER -> FVec4_New(FSub(FMul(c, p[X]), FMul(s, p[Y])),
                                FAdd(FMul(s, p[X]), FMul(c, p[Y])), p[Z], p[W])

\* the geometric transform T that a call names, applied to the point p
PointTransform(op, arg, p) ==
    CASE op = "translate" ->
            FVec4_New(FAdd(p[X], FMul(F(arg[1]), p[W])), FAdd(p[Y], FMul(F(arg[2]), p[W])),
                      FAdd(p[Z], FMul(F(arg[3]), p[W])), p[W])
      [] op = "scale" ->
            FVec4_New(FMul(F(arg[1]), p[X]), FMul(F(arg[2]), p[Y]), FMul(F(arg[3]), p[Z]), p[W])
      [] op = "rotate_x" -> TurnPoint(0, arg[1], p)
      [] op = "rotate_y" -> TurnPoint(1, arg[1], p)
      [] op = "rotate_z" -> TurnPoint(2, arg[1], p)
      [] OTHER ->
            \* rotate around an axis-aligned axis: a turn around -e is the
            \* opposite turn around e
            LET k == CHOOSE i \in 1 .. 3 : arg[i] # 0
            IN  TurnPoint(k - 1, IF arg[k] > 0 THEN arg[4] ELSE 4 - arg[4], p)

TransformOps == {"translate", "scale", "rotate", "rotate_x", "rotate_y", "rotate_z"}

\* T is applied after the matrix's previous effect, for every point
AppliedAfter ==
    \A p \in Points :
        mul_fvec4(last.out, p) = PointTransform(last.op, last.arg, mul_fvec4(last.pre, p))

----------------------------------------------------------------------------
(* C1: inverse() of a square matrix whose logical window is invertible      *)
(* returns Ok, and inverse(M) * M equals identity() on the logical window.  *)
C1_InverseOfInvertible ==
    (last.op = "inverse" /\ LogicalDet(last.pre) # F(0)) =>
        /\ last.ok
        /\ eq(mul(last.out, last.pre), identity(last.pre.N))

(* C2: inverse() of a square matrix whose determinant is zero returns Err,  *)
(* and the matrix carried by Err equals the original in all 16 slots.       *)
C2_SingularInverseIsErr ==
    (last.op = "inverse" /\ LogicalDet(last.pre) = F(0)) =>
        /\ ~last.ok
        /\ last.out = last.pre

(* C3: the logical window of A * B is the standard matrix product of the    *)
(* logical windows of A and B; padding never contributes.                   *)
C3_MulIsLogicalProduct ==
    (last.op = "mul" /\ IsMatrix(last.out)) =>
        fmt_rows(last.out) =
            StdProduct(fmt_rows(last.pre), fmt_rows(last.rhs), last.pre.M, last.pre.N, last.rhs.N)

(* C5: every in-place transform of a 4x4 matrix composes the new transform  *)
(* so that it is applied to coordinates after the matrix's previous effect. *)
C5_TransformAppliedAfter ==
    (last.op \in TransformOps /\ last.pre.M = 4 /\ last.pre.N = 4) => AppliedAfter

\* what transpose() promises of its result
TransposeResult ==
    /\ IsMatrix(last.out)
    /\ last.out.M = last.pre.N /\ last.out.N = last.pre.M
    /\ \A i \in 0 .. last.out.M - 1 : \A j \in 0 .. last.out.N - 1 :
            fmt_rows(last.out)[i][j] = fmt_rows(last.pre)[j][i]
    /\ eq(transpose(last.out), last.pre)

(* C6 as stated: for every valid shape M x N, transpose() yields the N x M  *)
(* matrix with element (i,j) = element (j,i) of A, and transposing twice    *)
(* gives A back.                                                            *)
C6_TransposeEveryShape == (last.op = "transpose") => TransposeResult

(* C6 as amended: the same for every shape with M and N both in {3, 4}; for *)
(* N in {1, 2} the N x M result is not a valid shape and no value is built. *)
C6_TransposeOfTransposable ==
    (last.op = "transpose" /\ last.pre.N \in {3, 4}) => TransposeResult

C6_Witness ==
    /\ last.op = "transpose"
    /\ IsMatrix(last.out)
    /\ \E i, j \in 0 .. last.pre.N - 1 :
            i < last.pre.M /\ j < last.pre.M /\ fmt_rows(last.pre)[i][j] # fmt_rows(last.pre)[j][i]

(* C7: for 3x3 and 4x4 and every reachable A of that shape,                 *)
(* identity() * A == A and A * identity() == A under matrix equality.       *)
C7_IdentityIsNeutral ==
    \A n \in {3, 4} :
        /\ (last.op = "mul" /\ last.pre = identity(n) /\ last.rhs.N = n) => eq(last.out, last.rhs)
        /\ (last.op = "mul" /\ last.rhs = identity(n) /\ last.pre.M = n) => eq(last.out, last.pre)

C7_Witness ==
    /\ last.op = "mul"
    /\ last.pre = identity(3)
    /\ last.rhs # identity(3)
    /\ last.rhs.M = 3 /\ last.rhs.N = 3
    /\ \E i \in 0 .. 2 : last.rhs.r[i][W] # F(0)

Plus1(d) == [k \in DOMAIN d |-> F(d[k] + 1)]

Minus1(d) == [k \in DOMAIN d |-> F(d[k] - 1)]

(* C8: A + B and A - B have as logical element (i,j) the sum, resp. the     *)
(* difference of A(i,j) and B(i,j), whatever the padding, and leave A and B *)
(* unchanged; diagonal(d) + identity() == diagonal(d + 1) and               *)
(* diagonal(d) - identity() == diagonal(d - 1) for 3x3 and 4x4.             *)
C8_AddSubElementwise ==
    /\ (last.op \in {"add", "sub"}) =>
        /\ IsMatrix(last.out)
        /\ last.out.M = last.pre.M /\ last.out.N = last.pre.N
        /\ \A i \in 0 .. last.pre.M - 1 : \A j \in 0 .. last.pre.N - 1 :
                fmt_rows(last.out)[i][j] =
                    IF last.op = "add"
                    THEN FAdd(fmt_rows(last.pre)[i][j], fmt_rows(last.rhs)[i][j])
                    ELSE FSub(fmt_rows(last.pre)[i][j], fmt_rows(last.rhs)[i][j])
        /\ {last.pre, last.rhs} = {reg.a, reg.b}
    /\ \A d \in DiagArgs3 :
        (last.pre = diagonal3(F(d[1]), F(d[2]), F(d[3])) /\ last.rhs = identity(3)) =>
            /\ last.op = "add" =>
                eq(last.out, diagonal3(Plus1(d)[1], Plus1(d)[2], Plus1(d)[3]))
            /\ last.op = "sub" =>
                eq(last.out, diagonal3(Minus1(d)[1], Minus1(d)[2], Minus1(d)[3]))
    /\ \A d \in DiagArgs4 :
        (last.pre = diagonal4(F(d[1]), F(d[2]), F(d[3]), F(d[4])) /\ last.rhs = identity(4)) =>
            /\ last.op = "add" =>
                eq(last.out, diagonal4(Plus1(d)[1], Plus1(d)[2], Plus1(d)[3], Plus1(d)[4]))
            /\ last.op = "sub" =>
                eq(last.out, diagonal4(Minus1(d)[1], Minus1(d)[2], Minus1(d)[3], Minus1(d)[4]))

C8_Witness ==
    /\ last.op = "add"
    /\ last.pre = diagonal3(F(1), F(2), F(3))
    /\ last.rhs = identity(3)
    /\ last.out.r[3][W] # F(0)

(* C9: every Matrix value that exists has M in {3, 4} and 0 < N <= 4; a     *)
(* call whose result shape would be invalid produces no value.              *)
C9_OnlyValidShapes ==
    /\ \A m \in {reg.a, reg.b, last.pre, last.rhs, last.out} :
            IsMatrix(m) => (m.M \in {3, 4} /\ m.N \in 1 .. 4)
    /\ (last.op = "transpose" /\ last.pre.N \notin {3, 4}) => last.out = Rejected
    /\ (last.op = "zero" /\ ~(last.arg[1] \in {3, 4} /\ last.arg[2] \in 1 .. 4)) =>
            last.out = Rejected
    /\ (last.op = "identity" /\ last.arg[1] \notin {3, 4}) => last.out = Rejected

C9_Witness ==
    /\ last.op = "transpose"
    /\ last.pre.M = 3 /\ last.pre.N = 2
    /\ last.out = Rejected
    /\ reg.a = last.pre

\* rows 0..M-1 and, in each row, the last N of the 4 physical slots
Window(m) == (0 .. m.M - 1) \X ((4 - m.N) .. 3)

SameWindow(l, r) == \A s \in Window(l) : l.r[s[1]][s[2]] = r.r[s[1]][s[2]]

WithinWindow(l, r, eps) ==
    \A s \in Window(l) : FLe(FAbs(FSub(l.r[s[1]][s[2]], r.r[s[1]][s[2]])), eps)

(* C4 as stated: == and approximate equality compare exactly the logical    *)
(* window: equal when the windows are element-wise identical whatever the   *)
(* padding holds, unequal when any logical element differs.                 *)
C4_BothExactOnWindow ==
    (cmp.op = "compare") =>
        /\ cmp.eq <=> SameWindow(reg.a, reg.b)
        /\ cmp.approx <=> SameWindow(reg.a, reg.b)

(* C4 as amended: both read the logical window only; == holds exactly when  *)
(* the windows are element-wise identical, approximate equality exactly     *)
(* when every logical element differs by at most the tolerance.             *)
C4_CompareLogicalWindow ==
    (cmp.op = "compare") =>
        /\ cmp.eq <=> SameWindow(reg.a, reg.b)
        /\ cmp.approx <=> WithinWindow(reg.a, reg.b, cmp.eps)

C4_Witness ==
    /\ cmp.op = "compare"
    /\ cmp.eps = default_epsilon
    /\ SameWindow(reg.a, reg.b)
    /\ reg.a.r # reg.b.r
    /\ cmp.eq /\ cmp.approx

====
